---- MODULE Spec2Model ----
(***************************************************************************)
(* Form Check Agent: the per-frame exercise analyzer (squat / push-up).    *)
(*                                                                         *)
(* The analyzer itself (backend/exercises/base.py, squat.py, pushup.py) is *)
(* named by README.md but is not among the source files; what the          *)
(* repository says about it is PRD.md section 5.2.3 (the 4-stage state     *)
(* machine, per-rep validation, rep gating).  The state machine follows    *)
(* PRD.md where PRD.md speaks; the rest follows the specification's        *)
(* sections 4.4 - 4.6 and 7.                                               *)
(*                                                                         *)
(* Angles are whole degrees.  Time is counted in units of 100 ms: the      *)
(* client captures a frame every 150 ms (PRD.md 5.3), so at least one      *)
(* unit passes between two frames.                                         *)
(***************************************************************************)
EXTENDS Integers, Sequences, FiniteSets, TLC

\* ------------------------------------------------------------- constants

upThreshold == 155
lockoutThreshold == 145
bottomThreshold == 100
resumeThreshold == 115
minBottomFrames == 2
\* Rep gating: 0.8 s, in units of 100 ms.
minRepInterval == 8
\* Consecutive non-confident frames that count as "subject lost".
sustainedLossFrames == 2

\* --------------------------------------------------------------- bounds

\* The counters are capped: frames that would count past MaxReps are not fed.
MaxReps == 1
\* Largest gap between two frames, in units of 100 ms.
MaxDt == 2

\* Representative smoothed angles for free frames: each threshold, and a value
\* below, between and above them (scripts feed their own values).
Angles == {90, 100, 115, 120, 145, 155, 170}
\* The form-issue flags a frame can raise ("Keep chest up!", PRD.md 5.2.3).
IssueCodes == {"KEEP_CHEST_UP"}

Min(a, b) == IF a < b THEN a ELSE b

\* ---------------------------------------------------------------- state

VARIABLES
    stage,          \* RepPhase: "UP" | "DESCENDING" | "BOTTOM" | "ASCENDING"
    bottomFrames,   \* consecutive frames below bottomThreshold seen in DESCENDING
    rec,            \* the in-flight RepRecord, or NoRec
    validReps,
    invalidReps,
    sinceRep,       \* time since the last counted rep, saturating at minRepInterval
    lostFrames,     \* consecutive non-confident frames, saturating
    angle,          \* the smoothed primary angle (held through occlusion)
    completed,      \* onCycleComplete was called on the last frame
    verdict,        \* what it returned: "VALID" | "INVALID", else "NONE"
    lastMessage,    \* FeedbackStabilizer: the last message selected, "" when cleared
    \* ---- observers (history variables, read by no operation)
    obsFlag,        \* a form-issue flag was raised on a frame of the cycle
    obsDepth,       \* depth was reported achieved on a BOTTOM frame of the cycle
    obsBelow,       \* a frame of the cycle had angle < bottomThreshold
    obsRun,         \* length of the current run of frames with angle < bottomThreshold
    obsElapsed,     \* at the last frame: time since a counter last went up (saturating)
    obsSinceRep,    \* the same after the frame: 0 when the frame counted a rep
    obsGated,       \* the last completed cycle was not counted
    obsLow,         \* a frame of the cycle had no confident landmarks
    obsLowRun,      \* length of the current run of non-confident frames (saturating)
    obsResets,      \* reset() calls in a row, up to 2
    obsOp,          \* the last step: "init" | "frame" | "lowconf" | "reset" | "begin"
    obsReset,       \* the phase reset() was last called in, "NONE" once a free frame follows
    \* ---- scripted input
    mode,           \* "free" | "script" | "done"
    kind,           \* which script: "none" | "cycle" | "dip" | "valid"
    script,         \* angles still to feed
    trace,          \* the phase after each scripted frame (from the starting phase)
    base,           \* <<validReps, invalidReps>> when the script began
    calls,          \* onCycleComplete calls during the script
    \* ---- the form-check screen (app/form-check.tsx)
    screen,                 \* "new" | "mounted" | "exited"
    countdown,              \* seconds left
    isCountdownActive,
    wsRef,                  \* readyState of wsRef.current: "null" | "CONNECTING" | "OPEN"
    closePending,           \* a socket closed by disconnectWebSocket awaits its close event
    isConnected,
    intentionalDisconnect,
    reconnectTimeout,       \* the delay of the pending reconnect timer in ms, or NoTimer
    reconnectDelay,         \* reconnectDelayRef, in ms
    isStreaming,
    isCapturing,
    frameInterval,          \* the timer frameIntervalRef holds is pending
    strays,                 \* pending captureLoop timers frameIntervalRef no longer holds
    photos,                 \* takePictureAsync calls in flight
    isResetPending,
    resetTimeout,           \* the 3 s reset timer is pending
    currentSessionId,       \* currentSessionIdRef: NoSession, a server session or ClientReset
    lastFrameSeq,
    lastUpdate,             \* ms since the time in lastUpdateRef (MAX_SAFE_INTEGER: it holds 0)
    displayValidReps,       \* the screen's validReps state
    displayInvalidReps,     \* the screen's invalidReps state
    totalSets,              \* route parameter sets
    repsPerSet,             \* route parameter reps
    currentSet,             \* currentSetRef
    isSetTransition,        \* isSetTransitionRef
    isWorkoutComplete,      \* isWorkoutCompleteRef
    setTimer,               \* the 3 s set transition timer is pending
    setData,                \* setDataRef: the counts recorded for each completed set
    \* ---- the server end of the connection
    srvSession,             \* last session id handed out
    srvSeq,                 \* frame_seq of the last analysis sent on this connection
    srvValid,
    srvInvalid,
    srvEpoch,               \* the resetReps() call whose reset_reps the server handled last
    toServer,               \* client -> server messages in flight, in order
    toClient,               \* server -> client messages in flight
    \* ---- observers of the screen
    obsAccepted,            \* the last step applied an analysis message
    obsAppliedSession,      \* session of the analysis messages applied last
    obsAppliedSeq,          \* highest frame_seq applied in that session
    obsCloses,              \* unintentional closes since the last open (saturating)
    obsLateClose,           \* a close event fired after the screen was left
    obsCalls,               \* resetReps() calls so far
    feedback,               \* the feedback text on display
    lastFeedback,           \* lastFeedbackRef
    obsSockets,             \* sockets the screen created that are CONNECTING or OPEN
    obsOpens,               \* sockets that opened so far (saturating at 2)
    \* ---- FeedbackStabilizer on its own (spec 4.3)
    fbNow,                  \* the time of the last select call, in units of 100 ms
    fbState,                \* FeedbackState: lastMessage, lastLevel, lastChangedAt
    fbCandidates,           \* the candidate list of the last select call
    fbBest,                 \* the candidate it ranked first
    fbOut,                  \* what it returned: text and level
    fbChanged,              \* ... and the changed flag
    obsFbElapsed,           \* at the last call: time since the returned text last changed
    obsFbSince,             \* the same after the call: 0 when the call changed the text
    \* ---- the useTTS hook (hooks/useTTS.ts)
    hook,                   \* "new" | "mounted" | "unmounted"
    player,                 \* which version of the hook runs: "expo-av" | "expo-audio"
    lastSpokenText,         \* lastSpokenTextRef
    lastSpeakTime,          \* ms since the time in lastSpeakTimeRef (MAX_SAFE_INTEGER: it holds 0)
    isSpeaking,             \* isSpeakingRef
    loading,                \* Audio.Sound.createAsync calls in flight (expo-av)
    refPlaying,             \* soundRef / playerRef holds a sound that is playing
    orphans,                \* sounds playing that soundRef no longer holds (expo-av)
    \* ---- observers of the hook
    obsStarted,             \* text of the utterance started last, "" before the first
    obsSinceStart,          \* ms since it started (saturating)
    obsUtterances           \* utterances started so far

analyzerVars == <<stage, bottomFrames, rec, validReps, invalidReps, sinceRep,
                  lostFrames, angle, completed, verdict, lastMessage>>
obsVars == <<obsFlag, obsDepth, obsBelow, obsRun, obsElapsed, obsSinceRep, obsGated,
             obsLow, obsLowRun, obsResets>>
scriptVars == <<mode, kind, script, trace, base, calls>>
coreVars == <<analyzerVars, obsVars, obsOp, obsReset, scriptVars>>
countdownVars == <<countdown, isCountdownActive>>
connVars == <<wsRef, closePending, isConnected, intentionalDisconnect, reconnectTimeout,
              reconnectDelay>>
streamVars == <<isStreaming, isCapturing, frameInterval, strays, photos>>
sessionVars == <<isResetPending, resetTimeout, currentSessionId, lastFrameSeq, lastUpdate,
                 displayValidReps, displayInvalidReps>>
serverVars == <<srvSession, srvSeq, srvValid, srvInvalid, srvEpoch, toServer, toClient>>
screenObs == <<obsAccepted, obsAppliedSession, obsAppliedSeq, obsCloses, obsLateClose,
               obsSockets, obsOpens,
               obsCalls>>
setVars == <<totalSets, repsPerSet, currentSet, isSetTransition, isWorkoutComplete,
             setTimer, setData>>
\* The local feedback texts are written in ASCII, the set number left out.
textVars == <<feedback, lastFeedback>>
screenVars == <<screen, countdownVars, connVars, streamVars, sessionVars, setVars,
                textVars, serverVars, screenObs>>
feedbackVars == <<fbNow, fbState, fbCandidates, fbBest, fbOut, fbChanged, obsFbElapsed,
                 obsFbSince>>
ttsVars == <<hook, player, lastSpokenText, lastSpeakTime, isSpeaking, loading, refPlaying,
            orphans, obsStarted, obsSinceStart, obsUtterances>>
restVars == <<feedbackVars, ttsVars>>
vars == <<coreVars, screenVars, restVars>>

EmptyFeedback == [lastMessage |-> "", lastLevel |-> "SUCCESS", lastChangedAt |-> 0]
NoOutput == [text |-> "", level |-> "SUCCESS"]
NoSession == 0
ClientReset == -1
NoTimer == 0

NoRec == [live |-> FALSE, formIssues |-> {}, reachedTargetDepth |-> FALSE, lowConf |-> FALSE]
EmptyRec == [live |-> TRUE, formIssues |-> {}, reachedTargetDepth |-> FALSE, lowConf |-> FALSE]

\* ------------------------------------------------- RepCycleStateMachine

\* (mutant) ASCENDING is left only above upThreshold.
AscendingDoneAtUp(a, atLockout) == a > upThreshold

\* ASCENDING is left for UP "at 145 degrees +" (PRD.md 5.2.3): above the lockout
\* threshold.  Whether exactly 145 already counts is not determined by the
\* text, so the frame says (atLockout) which way the comparison falls there.
AscendingDone(a, atLockout) ==
    a > lockoutThreshold \/ (a = lockoutThreshold /\ atLockout)

\* (mutant) the comparison includes the threshold itself.
BelowBottomInclusive(a) == a <= bottomThreshold

\* "below 100 degrees" (PRD.md 5.2.3, Bottom).
BelowBottom(a) == a < bottomThreshold

\* (mutant) the count of frames below is not cleared by a frame above.
BottomFramesNoClear(p, a, bf) ==
    IF p = "DESCENDING" /\ BelowBottom(a)
    THEN Min(bf + 1, minBottomFrames)
    ELSE bf

\* The frame is one more of a run of frames below bottomThreshold, seen in DESCENDING.
BottomFramesNext(p, a, bf) ==
    IF p = "DESCENDING" /\ BelowBottom(a)
    THEN Min(bf + 1, minBottomFrames)
    ELSE 0

\* (mutant) no hold: BOTTOM on the first frame below bottomThreshold.
StepPhaseNoHold(p, a, bf, atLockout) ==
    CASE p = "UP" ->
             IF a < lockoutThreshold THEN "DESCENDING" ELSE "UP"
      [] p = "DESCENDING" ->
             IF BelowBottom(a) THEN "BOTTOM"
             ELSE (IF a > upThreshold THEN "UP" ELSE "DESCENDING")
      [] p = "BOTTOM" ->
             IF a > resumeThreshold THEN "ASCENDING" ELSE "BOTTOM"
      [] p = "ASCENDING" ->
             IF AscendingDone(a, atLockout) THEN "UP" ELSE "ASCENDING"

\* (mutant) ASCENDING falls back to BOTTOM when the angle drops again.
StepPhaseRedescend(p, a, bf, atLockout) ==
    CASE p = "UP" ->
             IF a < lockoutThreshold THEN "DESCENDING" ELSE "UP"
      [] p = "DESCENDING" ->
             IF BelowBottom(a)
             THEN (IF BottomFramesNext(p, a, bf) >= minBottomFrames
                   THEN "BOTTOM" ELSE "DESCENDING")
             ELSE (IF a > upThreshold THEN "UP" ELSE "DESCENDING")
      [] p = "BOTTOM" ->
             IF a > resumeThreshold THEN "ASCENDING" ELSE "BOTTOM"
      [] p = "ASCENDING" ->
             IF AscendingDone(a, atLockout) THEN "UP"
             ELSE IF BelowBottom(a) THEN "BOTTOM" ELSE "ASCENDING"

\* One frame of the state machine: at most one transition per frame.
StepPhase(p, a, bf, atLockout) ==
    CASE p = "UP" ->
             IF a < lockoutThreshold THEN "DESCENDING" ELSE "UP"
      [] p = "DESCENDING" ->
             IF BelowBottom(a)
             THEN (IF BottomFramesNext(p, a, bf) >= minBottomFrames
                   THEN "BOTTOM" ELSE "DESCENDING")
             ELSE (IF a > upThreshold THEN "UP" ELSE "DESCENDING")
      [] p = "BOTTOM" ->
             IF a > resumeThreshold THEN "ASCENDING" ELSE "BOTTOM"
      [] p = "ASCENDING" ->
             IF AscendingDone(a, atLockout) THEN "UP" ELSE "ASCENDING"

\* The rep begins on the frame the phase leaves UP.
StartsRep(p0, p1) == p0 = "UP" /\ p1 # "UP"

\* (mutant) every return to UP completes a cycle, an aborted descent too.
CycleDoneAnyReturn(p0, p1) == p0 # "UP" /\ p1 = "UP"

\* The cycle completes on the transition ASCENDING -> UP.
CycleDone(p0, p1) == p0 = "ASCENDING" /\ p1 = "UP"

\* --------------------------------------------------------- RepValidator

\* (mutant) depth follows the last frame instead of being latched.
OnFrameDepthLatest(r, fl, dep, p) ==
    [r EXCEPT !.formIssues = r.formIssues \cup fl,
              !.reachedTargetDepth = dep /\ p = "BOTTOM"]

\* (mutant) latest-only: the record holds the flags of the last frame.
OnFrameLatest(r, fl, dep, p) ==
    [r EXCEPT !.formIssues = fl,
              !.reachedTargetDepth = r.reachedTargetDepth \/ (dep /\ p = "BOTTOM")]

\* onFrame: the record takes the union of the flags, and latches depth when it
\* is reported on a BOTTOM frame.
OnFrame(r, fl, dep, p) ==
    [r EXCEPT !.formIssues = r.formIssues \cup fl,
              !.reachedTargetDepth = r.reachedTargetDepth \/ (dep /\ p = "BOTTOM")]

\* onCycleComplete: VALID iff depth was achieved and no issue was accumulated.
Verdict(r) ==
    IF r.reachedTargetDepth /\ r.formIssues = {} THEN "VALID" ELSE "INVALID"

\* (mutant) no tracking-confidence gate.
CountsLowConfidence(r, since) == since >= minRepInterval

\* (mutant) no minimum interval.
CountsUngated(r, since) == ~r.lowConf

\* Rep gating: the interval since the last counted rep has elapsed, and every
\* frame of the cycle had the primary landmarks visible.
Counts(r, since) ==
    since >= minRepInterval /\ ~r.lowConf

\* (mutant) a completion that is not counted returns before the record is dropped.
RecordAfterKeepGated(p, r, counted) ==
    IF p = "UP" /\ (counted \/ ~r.live \/ stage # "ASCENDING") THEN NoRec ELSE r

\* The record after the frame: dropped when the phase is back in UP (the rep
\* completed, counted or not, or the descent was aborted).
RecordAfter(p, r, counted) ==
    IF p = "UP" THEN NoRec ELSE r

\* ---------------------------------------------------- FeedbackStabilizer

\* The message selected for a frame: the subject is lost, a form issue was
\* raised, or all is well; through a short occlusion the last one is held.
SelectMessage(conf, fl, lost, last) ==
    IF conf THEN (IF fl # {} THEN "Keep chest up!" ELSE "Good form")
    ELSE IF lost >= sustainedLossFrames THEN "Position yourself in frame"
    ELSE last

\* ------------------------------------------------------ ExerciseAnalyzer

\* (mutant) the safety escape only leaves DESCENDING.
EscapesFromDescending(lost, p) == lost >= sustainedLossFrames /\ p = "DESCENDING"

\* Safety escape: the subject has been lost for the sustained-loss period
\* while a rep is in progress.
Escapes(lost, p) == lost >= sustainedLossFrames /\ p # "UP"

\* The observers' view of one frame: dt is the time since the last frame.
Observe(conf, fl, dep, dt) ==
    LET inCycle == stage # "UP" \/ stage' # "UP"
        starts == stage = "UP" /\ stage' # "UP"
        old(b) == IF starts THEN FALSE ELSE b
        counted == validReps' + invalidReps' > validReps + invalidReps
    IN  /\ obsOp' = IF conf THEN "frame" ELSE "lowconf"
        /\ obsFlag' = (inCycle /\ (old(obsFlag) \/ fl # {}))
        /\ obsDepth' = (inCycle /\ (old(obsDepth) \/ (dep /\ stage' = "BOTTOM")))
        /\ obsBelow' = (inCycle /\ (old(obsBelow) \/ angle' < bottomThreshold))
        /\ obsRun' = IF angle' < bottomThreshold
                     THEN Min(obsRun + 1, minBottomFrames) ELSE 0
        /\ obsElapsed' = Min(obsSinceRep + dt, minRepInterval)
        /\ obsSinceRep' = IF counted THEN 0 ELSE obsElapsed'
        /\ obsGated' = IF completed' THEN ~counted ELSE obsGated
        /\ obsLow' = (inCycle /\ (old(obsLow) \/ ~conf))
        /\ obsLowRun' = IF conf THEN 0 ELSE Min(obsLowRun + 1, sustainedLossFrames)
        /\ obsResets' = 0

\* (mutant) the state machine runs on the held angle.
LowConfidenceFrameSteps(dt) ==
    LET lost == Min(lostFrames + 1, sustainedLossFrames)
        p == StepPhase(stage, angle, bottomFrames, FALSE)
    IN  /\ lostFrames' = lost
        /\ angle' = angle
        /\ sinceRep' = Min(sinceRep + dt, minRepInterval)
        /\ stage' = IF Escapes(lost, stage) \/ CycleDone(stage, p) THEN "UP" ELSE p
        /\ bottomFrames' = IF stage' = "DESCENDING"
                           THEN BottomFramesNext(stage, angle, bottomFrames) ELSE 0
        /\ rec' = IF stage' = "UP" THEN NoRec
                  ELSE IF StartsRep(stage, p) THEN [EmptyRec EXCEPT !.lowConf = TRUE]
                  ELSE [rec EXCEPT !.lowConf = TRUE]
        /\ completed' = FALSE
        /\ verdict' = "NONE"
        /\ lastMessage' = SelectMessage(FALSE, {}, lost, lastMessage)
        /\ UNCHANGED <<validReps, invalidReps>>

\* A frame whose primary landmarks are below the visibility threshold: the
\* smoother holds its value, the state machine does not move, the validator
\* takes nothing from it; a sustained loss resets the machine to UP.
LowConfidenceFrame(dt) ==
    LET lost == Min(lostFrames + 1, sustainedLossFrames)
        escape == Escapes(lost, stage)
    IN  /\ lostFrames' = lost
        /\ angle' = angle
        /\ sinceRep' = Min(sinceRep + dt, minRepInterval)
        /\ stage' = IF escape THEN "UP" ELSE stage
        /\ bottomFrames' = IF escape THEN 0 ELSE bottomFrames
        /\ rec' = IF escape THEN NoRec
                  ELSE IF rec.live THEN [rec EXCEPT !.lowConf = TRUE] ELSE rec
        /\ completed' = FALSE
        /\ verdict' = "NONE"
        /\ lastMessage' = SelectMessage(FALSE, {}, lost, lastMessage)
        /\ UNCHANGED <<validReps, invalidReps>>

\* A frame with confident landmarks: state machine, then validator.
ConfidentFrame(a, fl, dep, dt, atLockout) ==
    LET p == StepPhase(stage, a, bottomFrames, atLockout)
        now == Min(sinceRep + dt, minRepInterval)
        r0 == IF StartsRep(stage, p) THEN EmptyRec ELSE rec
        r1 == IF r0.live THEN OnFrame(r0, fl, dep, p) ELSE r0
        done == CycleDone(stage, p)
        v == Verdict(r1)
        counted == done /\ Counts(r1, now)
    IN  /\ lostFrames' = 0
        /\ angle' = a
        /\ stage' = p
        /\ bottomFrames' = IF p = "DESCENDING"
                           THEN BottomFramesNext(stage, a, bottomFrames) ELSE 0
        /\ rec' = RecordAfter(p, r1, counted)
        /\ completed' = done
        /\ verdict' = IF done THEN v ELSE "NONE"
        /\ validReps' = IF counted /\ v = "VALID" THEN validReps + 1 ELSE validReps
        /\ invalidReps' = IF counted /\ v = "INVALID" THEN invalidReps + 1 ELSE invalidReps
        /\ sinceRep' = IF counted THEN 0 ELSE now
        /\ lastMessage' = SelectMessage(TRUE, fl, 0, lastMessage)

\* process(landmarks): one frame.  Without confident landmarks the form
\* checks produce no flag and no depth reading.
Frame(a, conf, fl, dep, dt, atLockout) ==
    /\ IF conf THEN ConfidentFrame(a, fl, dep, dt, atLockout)
               ELSE fl = {} /\ ~dep /\ LowConfidenceFrame(dt)
    /\ validReps' <= MaxReps
    /\ invalidReps' <= MaxReps
    /\ Observe(conf, fl, dep, dt)

\* (mutant) reset() zeroes the counters and nothing else.
ResetCountersOnly ==
    /\ validReps' = 0
    /\ invalidReps' = 0
    /\ completed' = FALSE
    /\ verdict' = "NONE"
    /\ UNCHANGED <<stage, bottomFrames, rec, sinceRep, lostFrames, angle, lastMessage>>

\* (mutant) reset() with a rep in flight only abandons the rep.
ResetAbandonsRepFirst ==
    IF rec.live
    THEN /\ stage' = "UP"
         /\ bottomFrames' = 0
         /\ rec' = NoRec
         /\ completed' = FALSE
         /\ verdict' = "NONE"
         /\ UNCHANGED <<validReps, invalidReps, sinceRep, lostFrames, angle, lastMessage>>
    ELSE /\ validReps' = 0
         /\ invalidReps' = 0
         /\ sinceRep' = minRepInterval
         /\ lostFrames' = 0
         /\ completed' = FALSE
         /\ verdict' = "NONE"
         /\ lastMessage' = ""
         /\ UNCHANGED <<stage, bottomFrames, rec, angle>>

\* reset(): counters to zero, machine to UP, the in-flight record dropped,
\* the stabilizer's last message cleared, the whole analyzer state
\* re-initialized (the smoothed angle is kept).
ResetAnalyzer ==
    /\ stage' = "UP"
    /\ bottomFrames' = 0
    /\ rec' = NoRec
    /\ validReps' = 0
    /\ invalidReps' = 0
    /\ sinceRep' = minRepInterval
    /\ lostFrames' = 0
    /\ completed' = FALSE
    /\ verdict' = "NONE"
    /\ lastMessage' = ""
    /\ UNCHANGED angle

\* ------------------------------------------------------------- scripts

CycleScript == <<170, 140, 90, 90, 90, 120, 160>>
DipScript == <<170, 140, 170>>
ValidCycles == {CycleScript, <<140, 90, 90, 120, 160>>, <<110, 90, 90, 150, 170>>}

Scripts(k) ==
    CASE k = "cycle" -> {CycleScript}
      [] k = "dip" -> {DipScript}
      [] k = "valid" -> ValidCycles

\* --------------------------------------------------------------- actions

Init ==
    /\ stage = "UP"
    /\ bottomFrames = 0
    /\ rec = NoRec
    /\ validReps = 0
    /\ invalidReps = 0
    /\ sinceRep = minRepInterval
    /\ lostFrames = 0
    /\ angle = 170
    /\ completed = FALSE
    /\ verdict = "NONE"
    /\ lastMessage = ""
    /\ obsFlag = FALSE
    /\ obsDepth = FALSE
    /\ obsBelow = FALSE
    /\ obsRun = 0
    /\ obsElapsed = minRepInterval
    /\ obsSinceRep = minRepInterval
    /\ obsGated = FALSE
    /\ obsLow = FALSE
    /\ obsLowRun = 0
    /\ obsResets = 0
    /\ obsOp = "init"
    /\ obsReset = "NONE"
    /\ mode = "free"
    /\ kind = "none"
    /\ script = <<>>
    /\ trace = <<>>
    /\ base = <<0, 0>>
    /\ calls = 0
    /\ screen = "new"
    /\ countdown = 0
    /\ isCountdownActive = FALSE
    /\ wsRef = "null"
    /\ closePending = FALSE
    /\ isConnected = FALSE
    /\ intentionalDisconnect = FALSE
    /\ reconnectTimeout = NoTimer
    /\ reconnectDelay = 1000
    /\ isStreaming = FALSE
    /\ isCapturing = FALSE
    /\ frameInterval = FALSE
    /\ strays = 0
    /\ photos = 0
    /\ isResetPending = FALSE
    /\ resetTimeout = FALSE
    /\ currentSessionId = NoSession
    /\ lastFrameSeq = 0
    /\ lastUpdate = 2147483647
    /\ displayValidReps = 0
    /\ displayInvalidReps = 0
    /\ totalSets = 1
    /\ repsPerSet = 1
    /\ currentSet = 1
    /\ isSetTransition = FALSE
    /\ isWorkoutComplete = FALSE
    /\ setTimer = FALSE
    /\ setData = <<>>
    /\ srvSession = 0
    /\ srvSeq = 0
    /\ srvValid = 0
    /\ srvInvalid = 0
    /\ srvEpoch = 0
    /\ toServer = <<>>
    /\ toClient = {}
    /\ obsAccepted = FALSE
    /\ obsAppliedSession = NoSession
    /\ obsAppliedSeq = 0
    /\ obsCloses = 0
    /\ obsLateClose = FALSE
    /\ obsSockets = 0
    /\ obsOpens = 0
    /\ feedback = "Position yourself in frame"
    /\ lastFeedback = ""
    /\ obsCalls = 0
    /\ fbNow = 0
    /\ fbState = EmptyFeedback
    /\ fbCandidates = <<>>
    /\ fbBest = ""
    /\ fbOut = NoOutput
    /\ fbChanged = FALSE
    /\ obsFbElapsed = 0
    /\ obsFbSince = 0
    /\ hook = "new"
    /\ player = "expo-audio"
    /\ lastSpokenText = ""
    /\ lastSpeakTime = 2147483647
    /\ isSpeaking = FALSE
    /\ loading = 0
    /\ refPlaying = FALSE
    /\ orphans = 0
    /\ obsStarted = ""
    /\ obsSinceStart = 2147483647
    /\ obsUtterances = 0

\* The comparison at exactly lockoutThreshold may fall either way.
AtLockout(a) == IF a = lockoutThreshold THEN BOOLEAN ELSE {FALSE}

ProcessFrame ==
    /\ mode = "free"
    /\ \/ \E dt \in 1..MaxDt : Frame(angle, FALSE, {}, FALSE, dt, FALSE)
       \/ \E a \in Angles, fl \in SUBSET IssueCodes, dep \in BOOLEAN, dt \in 1..MaxDt :
             \E atLockout \in AtLockout(a) : Frame(a, TRUE, fl, dep, dt, atLockout)
    /\ obsReset' = "NONE"
    /\ UNCHANGED <<scriptVars, screenVars, restVars>>

Reset ==
    /\ mode = "free"
    /\ ResetAnalyzer
    /\ obsFlag' = FALSE
    /\ obsDepth' = FALSE
    /\ obsBelow' = FALSE
    /\ obsElapsed' = minRepInterval
    /\ obsSinceRep' = minRepInterval
    /\ obsGated' = FALSE
    /\ obsLow' = FALSE
    /\ obsLowRun' = 0
    /\ obsResets' = Min(obsResets + 1, 2)
    /\ obsOp' = "reset"
    /\ obsReset' = stage
    /\ UNCHANGED <<obsRun, scriptVars, screenVars, restVars>>

BeginScript ==
    /\ mode = "free"
    /\ \E k \in {"cycle", "dip", "valid"} :
          /\ kind' = k
          /\ \E s \in Scripts(k) : script' = s
    /\ mode' = "script"
    /\ trace' = <<stage>>
    /\ base' = <<validReps, invalidReps>>
    /\ calls' = 0
    /\ obsOp' = "begin"
    /\ UNCHANGED <<analyzerVars, obsVars, obsReset, screenVars, restVars>>

\* The next scripted frame: confident; a "valid" script raises no flag and
\* reports depth whenever the angle is below bottomThreshold.
FeedScript ==
    /\ mode = "script"
    /\ \E fl \in SUBSET IssueCodes, dep \in BOOLEAN, dt \in 1..MaxDt,
          atLockout \in AtLockout(Head(script)) :
          /\ kind = "valid" => fl = {} /\ dep = (Head(script) < bottomThreshold)
          /\ Frame(Head(script), TRUE, fl, dep, dt, atLockout)
    /\ script' = Tail(script)
    /\ mode' = IF Len(script) = 1 THEN "done" ELSE "script"
    /\ trace' = Append(trace, stage')
    /\ calls' = calls + (IF completed' THEN 1 ELSE 0)
    /\ UNCHANGED <<kind, base, obsReset, screenVars, restVars>>

Next == ProcessFrame \/ Reset

Spec == Init /\ [][Next]_vars

NextScript == ProcessFrame \/ Reset \/ BeginScript \/ FeedScript

SpecScript == Init /\ [][NextScript]_vars

TypeOK ==
    /\ stage \in {"UP", "DESCENDING", "BOTTOM", "ASCENDING"}
    /\ bottomFrames \in 0..minBottomFrames
    /\ validReps \in 0..MaxReps
    /\ invalidReps \in 0..MaxReps
    /\ sinceRep \in 0..minRepInterval
    /\ lostFrames \in 0..sustainedLossFrames
    /\ angle \in Angles \cup {110, 140, 150, 160}
    /\ verdict \in {"VALID", "INVALID", "NONE"}
    /\ rec.live = (stage # "UP")

\* ================================================ FeedbackStabilizer
\* select(candidates, now) -> (text, Severity, changed), spec 4.3: rank the
\* frame's candidates, hold the displayed message for the dwell time unless a
\* safety issue of higher priority preempts it, and report whether the text
\* changed.  Time is in units of 100 ms.

\* The dwell time: 0.4 s, within the spec's 0.3 - 0.5 s.
minDwell == 4
\* select is called up to this time.
MaxClock == 8
\* Candidates in one call.
MaxCandidates == 3

\* The issue codes in their declared order: two safety issues, a technique
\* issue and the positive message.
FeedbackCodes == <<"BACK_ROUNDING", "BODY_SAG", "INSUFFICIENT_DEPTH", "GOOD_FORM">>

Rank(code) == CHOOSE i \in 1..Len(FeedbackCodes) : FeedbackCodes[i] = code

Priority(code) ==
    CASE code \in {"BACK_ROUNDING", "BODY_SAG"} -> 1
      [] code = "INSUFFICIENT_DEPTH" -> 2
      [] OTHER -> 3

Severity(code) ==
    CASE code \in {"BACK_ROUNDING", "BODY_SAG"} -> "ERROR"
      [] code = "INSUFFICIENT_DEPTH" -> "WARNING"
      [] OTHER -> "SUCCESS"

Text(code) ==
    CASE code = "BACK_ROUNDING" -> "Keep chest up!"
      [] code = "BODY_SAG" -> "Keep your body straight"
      [] code = "INSUFFICIENT_DEPTH" -> "Go deeper"
      [] OTHER -> "Good form"

CodeOf(text) == CHOOSE c \in {FeedbackCodes[i] : i \in 1..Len(FeedbackCodes)} : Text(c) = text

\* The first of a priority class wins, whatever the declared order says.
OutranksByClass(a, b) == Priority(a) < Priority(b)

\* a goes before b: higher priority class, ties by the declared order.
Outranks(a, b) ==
    \/ Priority(a) < Priority(b)
    \/ Priority(a) = Priority(b) /\ Rank(a) < Rank(b)

RECURSIVE BestOf(_, _)
\* The candidate that no later one outranks, starting from best.
BestOf(best, cands) ==
    IF cands = <<>> THEN best
    ELSE BestOf(IF Outranks(Head(cands), best) THEN Head(cands) ELSE best, Tail(cands))

Best(cands) == BestOf(Head(cands), Tail(cands))

\* A safety issue of higher priority than the displayed message preempts it.
Preempts(code, last) == Priority(code) = 1 /\ Priority(code) < Priority(CodeOf(last))

AcceptsAlways(code, st, now) == Text(code) # st.lastMessage

\* The stabilizer changes the displayed message to the one of code.
Accepts(code, st, now) ==
    /\ Text(code) # st.lastMessage
    /\ \/ st.lastMessage = ""
       \/ now - st.lastChangedAt >= minDwell
       \/ Preempts(code, st.lastMessage)

ChangedWhenCandidateDiffers(code, st, now) == Text(code) # st.lastMessage

\* The changed flag of a call that ranked code first.
Changed(code, st, now) == Accepts(code, st, now)

\* FeedbackState after the call.
StateAfter(code, st, now) ==
    IF Accepts(code, st, now)
    THEN [lastMessage |-> Text(code), lastLevel |-> Severity(code), lastChangedAt |-> now]
    ELSE st

\* Candidate lists: up to MaxCandidates different codes in any order.
CandidateLists ==
    {c \in UNION {[1..n -> {FeedbackCodes[i] : i \in 1..Len(FeedbackCodes)}] :
                     n \in 1..MaxCandidates} :
        \A i, j \in DOMAIN c : i # j => c[i] # c[j]}

\* One call of select, dt after the previous one.
Select ==
    /\ \E dt \in 1..MaxDt, cands \in CandidateLists :
          /\ fbNow + dt <= MaxClock
          /\ fbNow' = fbNow + dt
          /\ fbCandidates' = cands
          /\ fbBest' = Best(cands)
          /\ fbState' = StateAfter(fbBest', fbState, fbNow')
          /\ fbOut' = [text |-> fbState'.lastMessage, level |-> fbState'.lastLevel]
          /\ fbChanged' = Changed(fbBest', fbState, fbNow')
          /\ obsFbElapsed' = Min(obsFbSince + dt, minDwell)
          /\ obsFbSince' = IF fbOut'.text # fbOut.text THEN 0 ELSE obsFbElapsed'
    /\ UNCHANGED <<coreVars, screenVars, ttsVars>>

\* reset() clears the last-message memory (spec 4.6): the next message is new.
FeedbackReset ==
    /\ fbState # EmptyFeedback
    /\ fbState' = EmptyFeedback
    /\ fbOut' = NoOutput
    /\ fbChanged' = FALSE
    /\ UNCHANGED <<fbNow, fbCandidates, fbBest, obsFbElapsed, obsFbSince, coreVars,
                   screenVars, ttsVars>>

NextFeedback == Select \/ FeedbackReset

SpecFeedback == Init /\ [][NextFeedback]_vars

\* ============================================== the form-check screen
\* app/form-check.tsx: the WebSocket, the countdown, the capture loop and the
\* rep display of the workout screen.  Timers are pending or not and fire at
\* any moment; the camera permission is granted.

\* Number.MAX_SAFE_INTEGER (2^53 - 1), as the largest integer TLC has.
MAX_SAFE_INTEGER == 2147483647
initialDelay == 1000
maxDelay == 10000

\* Seconds on the countdown when the screen opens: 0 or MaxTimer.
MaxTimer == 2
\* Capture loops (pending captureLoop timers and photos in flight) at a time.
MaxLoops == 2
\* obsCloses saturates here.
MaxCloses == 6
\* Sessions the server hands out (one per connection, one per reset).
MaxSessions == 2
\* Frames the server analyses on one connection.
MaxSeq == 2
\* Reps the server counts in one session; the route parameter reps is 1 .. MaxCount.
MaxCount == 2
\* Messages in flight to the client, and to the server.
MaxInFlight == 2
MaxOutbox == 1
\* resetReps() calls in one run.
MaxResets == 2
\* Sets of a workout: the route parameter sets is 1 .. MaxSets.
MaxSets == 2
\* The throttle of the analysis state updates (line 241), in ms.
throttle == 33
\* The same according to PRD.md 7: ~15 fps.
uiThrottle == 66
\* Time passes in steps of tickMs.
tickMs == 22

\* ---- capture loop (startStreaming, lines 386-424)

SetStream(s, c, fi, st, ph) ==
    /\ isStreaming' = s
    /\ isCapturing' = c
    /\ frameInterval' = fi
    /\ strays' = st
    /\ photos' = ph

\* captureLoop up to its first await, with isStreamingRef = s, the socket in
\* state ws, and fi / st the timers still pending.  The finally clause stores
\* a new timer in frameIntervalRef; a pending one it held becomes a stray.
captureLoop(s, ws, fi, st) ==
    IF ~s THEN SetStream(s, isCapturing, fi, st, photos)
    ELSE IF ws = "OPEN" /\ ~isCapturing
         THEN SetStream(s, TRUE, fi, st, photos + 1)
         ELSE SetStream(s, FALSE, TRUE, st + (IF fi THEN 1 ELSE 0), photos)

startStreaming(s, ws, fi, st) ==
    IF s THEN SetStream(s, isCapturing, fi, st, photos)
    ELSE captureLoop(TRUE, ws, fi, st)

StreamingMayStartConnected(conn, active) == conn

\* The condition of the streaming start effect (lines 436-441).
StreamingMayStart(conn, active) == conn /\ ~active /\ ~isWorkoutComplete

\* The streaming start effect, run when isConnected or isCountdownActive changed.
StreamingEffect(conn, active, s, ws, fi, st) ==
    IF StreamingMayStart(conn, active) THEN startStreaming(s, ws, fi, st)
    ELSE SetStream(s, isCapturing, fi, st, photos)

\* ---- connection (lines 152-330)

NextDelayUncapped(delay) == delay * 2

\* onclose, line 294.
NextDelay(delay) == Min(delay * 2, maxDelay)

SchedulesReconnectAlways(intentional) == TRUE

\* onclose, line 291.
SchedulesReconnect(intentional) == ~intentional

CreatesSocketAlways(ws) == TRUE

\* connectWebSocket returns early if wsRef holds an OPEN or CONNECTING socket
\* (lines 153-156).
CreatesSocket(ws) == ws \notin {"OPEN", "CONNECTING"}

\* connectWebSocket (lines 152-160, 311): the new socket goes into wsRef.
connectWebSocket ==
    IF CreatesSocket(wsRef)
    THEN wsRef' = "CONNECTING" /\ obsSockets' = obsSockets + 1
    ELSE UNCHANGED <<wsRef, obsSockets>>

\* The screen opens: state initialised from the route parameters, then the
\* lifecycle effect (lines 427-433) connects.
Mount ==
    /\ screen = "new"
    /\ screen' = "mounted"
    /\ \E t \in {0, MaxTimer} :
          /\ countdown' = t
          /\ isCountdownActive' = (t > 0)
    /\ totalSets' \in 1..MaxSets
    /\ repsPerSet' \in 1..MaxCount
    /\ connectWebSocket /\ obsAccepted' = FALSE
    /\ UNCHANGED <<closePending, isConnected, intentionalDisconnect, reconnectTimeout,
                   reconnectDelay, streamVars, sessionVars, serverVars,
                   obsAppliedSession, obsAppliedSeq, obsCloses, obsCalls,
                   obsLateClose, obsOpens, textVars, currentSet, isSetTransition, isWorkoutComplete,
                   setTimer, setData, coreVars, restVars>>

\* ws.onopen (lines 162-169); the server starts a fresh session for the
\* connection; then the streaming start effect.
onopen ==
    /\ wsRef = "CONNECTING"
    /\ srvSession < MaxSessions
    /\ wsRef' = "OPEN"
    /\ isConnected' = TRUE
    /\ currentSessionId' = NoSession
    /\ reconnectDelay' = initialDelay
    /\ StreamingEffect(TRUE, isCountdownActive, isStreaming, "OPEN", frameInterval, strays)
    /\ photos' + strays' + (IF frameInterval' THEN 1 ELSE 0) <= MaxLoops
    /\ srvSession' = srvSession + 1
    /\ srvSeq' = 0
    /\ srvValid' = 0
    /\ srvInvalid' = 0
    /\ srvEpoch' = obsCalls
    /\ obsCloses' = 0
    /\ obsOpens' = Min(obsOpens + 1, 2)
    /\ UNCHANGED textVars
    /\ obsAccepted' = FALSE
    /\ UNCHANGED <<screen, countdownVars, closePending, intentionalDisconnect,
                   reconnectTimeout, isResetPending, resetTimeout, lastFrameSeq,
                   lastUpdate, displayValidReps, displayInvalidReps, toServer, toClient,
                   obsAppliedSession, obsAppliedSeq, obsCalls, obsLateClose, obsSockets, setVars,
                   coreVars, restVars>>

\* ws.onclose (lines 285-309), of the socket wsRef holds (the connection
\* failed or dropped) or of one that disconnectWebSocket closed.
onclose ==
    /\ \/ /\ wsRef \in {"CONNECTING", "OPEN"}
          /\ closePending' = closePending
          /\ obsSockets' = obsSockets - 1
       \/ /\ closePending
          /\ closePending' = FALSE
          /\ obsSockets' = obsSockets
    /\ wsRef' = "null"
    /\ isConnected' = FALSE
    /\ IF SchedulesReconnect(intentionalDisconnect)
       THEN /\ reconnectDelay' = NextDelay(reconnectDelay)
            /\ reconnectTimeout' = reconnectDelay
            /\ obsCloses' = Min(obsCloses + 1, MaxCloses)
       ELSE UNCHANGED <<reconnectDelay, reconnectTimeout, obsCloses>>
    /\ SetStream(FALSE, isCapturing, FALSE, strays, photos)
    /\ resetTimeout' = FALSE
    /\ isResetPending' = FALSE
    /\ currentSessionId' = NoSession
    /\ toServer' = <<>>
    /\ toClient' = {}
    /\ obsAccepted' = FALSE
    /\ obsLateClose' = (obsLateClose \/ screen = "exited")
    /\ obsOpens' = obsOpens
    /\ UNCHANGED textVars
    /\ UNCHANGED <<screen, countdownVars, intentionalDisconnect, lastFrameSeq, lastUpdate,
                   displayValidReps, displayInvalidReps, srvSession, srvSeq, srvValid,
                   srvInvalid, srvEpoch, obsAppliedSession, obsAppliedSeq, obsCalls,
                   setVars,
                   coreVars, restVars>>

\* The reconnect timer fires: connectWebSocket (line 296).
ReconnectTimer ==
    /\ reconnectTimeout # NoTimer
    /\ reconnectTimeout' = NoTimer
    /\ connectWebSocket /\ obsAccepted' = FALSE
    /\ UNCHANGED <<screen, countdownVars, closePending, isConnected, intentionalDisconnect,
                   reconnectDelay, streamVars, sessionVars, serverVars,
                   obsAppliedSession, obsAppliedSeq, obsCloses, obsCalls,
                   obsLateClose, obsOpens, textVars, setVars,
                   coreVars, restVars>>

\* The status item of the HUD is pressed: connectWebSocket (line 573).  It is
\* on the screen when no countdown runs and the workout is not complete.
PressConnect ==
    /\ screen = "mounted"
    /\ ~isCountdownActive /\ ~isWorkoutComplete
    /\ connectWebSocket /\ obsAccepted' = FALSE
    /\ UNCHANGED <<screen, countdownVars, closePending, isConnected, intentionalDisconnect,
                   reconnectTimeout, reconnectDelay, streamVars, sessionVars, serverVars,
                   obsAppliedSession, obsAppliedSeq, obsCloses, obsCalls,
                   obsLateClose, obsOpens, textVars, setVars, coreVars, restVars>>

\* disconnectWebSocket (lines 315-330), the cleanup of the lifecycle effect:
\* the screen is left.
disconnectWebSocket ==
    /\ screen = "mounted"
    /\ screen' = "exited"
    /\ intentionalDisconnect' = TRUE
    /\ reconnectTimeout' = NoTimer
    /\ SetStream(FALSE, isCapturing, FALSE, strays, photos)
    /\ closePending' = (closePending \/ wsRef # "null")
    /\ obsSockets' = IF wsRef \in {"CONNECTING", "OPEN"} THEN obsSockets - 1 ELSE obsSockets
    /\ wsRef' = "null"
    /\ toServer' = <<>>
    /\ toClient' = {}
    /\ obsAccepted' = FALSE
    /\ UNCHANGED <<countdownVars, isConnected, reconnectDelay, sessionVars, srvSession,
                   srvSeq, srvValid, srvInvalid, srvEpoch, obsAppliedSession,
                   obsAppliedSeq, obsCloses, obsCalls, obsLateClose, obsOpens, textVars, setVars,
                   coreVars, restVars>>

\* ---- countdown (lines 97-109)

CountdownTick ==
    /\ screen = "mounted"
    /\ isCountdownActive
    /\ countdown > 0
    /\ countdown' = countdown - 1
    /\ obsAccepted' = FALSE
    /\ UNCHANGED <<screen, isCountdownActive, connVars, streamVars, sessionVars,
                   serverVars, obsAppliedSession, obsAppliedSeq, obsCloses,
                   obsCalls, obsLateClose, obsOpens, textVars, obsSockets, setVars,
                   coreVars, restVars>>

\* The countdown has run out; then the streaming start effect.
CountdownDone ==
    /\ screen = "mounted"
    /\ isCountdownActive
    /\ countdown <= 0
    /\ isCountdownActive' = FALSE
    /\ feedback' = "Go! Start your squats!"
    /\ lastFeedback' = lastFeedback
    /\ StreamingEffect(isConnected, FALSE, isStreaming, wsRef, frameInterval, strays)
    /\ photos' + strays' + (IF frameInterval' THEN 1 ELSE 0) <= MaxLoops
    /\ obsAccepted' = FALSE
    /\ UNCHANGED <<screen, countdown, connVars, sessionVars, serverVars,
                   obsAppliedSession, obsAppliedSeq, obsCloses, obsCalls,
                   obsLateClose, obsOpens, obsSockets, setVars,
                   coreVars, restVars>>

\* ---- capture loop steps

\* A captureLoop timer fires: the one frameIntervalRef holds, or a stray.
CaptureTimer ==
    /\ \/ frameInterval /\ captureLoop(isStreaming, wsRef, FALSE, strays)
       \/ strays > 0 /\ captureLoop(isStreaming, wsRef, frameInterval, strays - 1)
    /\ obsAccepted' = FALSE
    /\ UNCHANGED <<screen, countdownVars, connVars, sessionVars, serverVars,
                   obsAppliedSession, obsAppliedSeq, obsCloses, obsCalls,
                   obsLateClose, obsOpens, textVars, obsSockets, setVars,
                   coreVars, restVars>>

\* takePictureAsync settles (lines 403-419): the frame is sent if there is a
\* photo and the socket is OPEN; the finally clause schedules the next loop.
PhotoSettles ==
    /\ photos > 0
    /\ \E ok \in BOOLEAN :
          IF ok /\ wsRef = "OPEN"
          THEN /\ Len(toServer) < MaxOutbox
               /\ toServer' = Append(toServer, [type |-> "frame", call |-> 0])
               /\ obsAccepted' = FALSE
          ELSE /\ toServer' = toServer
               /\ obsAccepted' = FALSE
    /\ SetStream(isStreaming, FALSE, TRUE, strays + (IF frameInterval THEN 1 ELSE 0),
                 photos - 1)
    /\ UNCHANGED <<screen, countdownVars, connVars, sessionVars, srvSession, srvSeq,
                   srvValid, srvInvalid, srvEpoch, toClient, obsAppliedSession,
                   obsAppliedSeq, obsCloses, obsCalls, obsLateClose, obsOpens, textVars, obsSockets, setVars,
                   coreVars, restVars>>

\* ---- reset and analysis messages (lines 184-270, 333-365)

\* resetReps() (lines 333-365).
ResetRepsCall ==
    /\ obsCalls < MaxResets
    /\ obsCalls' = obsCalls + 1
    /\ IF wsRef = "OPEN"
       THEN /\ Len(toServer) < MaxOutbox
            /\ toServer' = Append(toServer, [type |-> "reset_reps", call |-> obsCalls + 1])
            /\ isResetPending' = TRUE
            /\ resetTimeout' = TRUE
       ELSE /\ toServer' = toServer
            /\ isResetPending' = FALSE
            /\ resetTimeout' = FALSE
    /\ displayValidReps' = 0
    /\ feedback' = "Next set - get ready!"
    /\ lastFeedback' = lastFeedback
    /\ displayInvalidReps' = 0
    /\ lastUpdate' = MAX_SAFE_INTEGER
    /\ lastFrameSeq' = MAX_SAFE_INTEGER
    /\ obsAccepted' = FALSE
    /\ UNCHANGED <<screen, countdownVars, connVars, streamVars, currentSessionId,
                   srvSession, srvSeq, srvValid, srvInvalid, srvEpoch, toClient,
                   obsAppliedSession, obsAppliedSeq, obsCloses, obsLateClose, obsOpens, obsSockets,
                   totalSets, repsPerSet, isWorkoutComplete, setData,
                   coreVars, restVars>>

\* resetReps from the Reset button (line 609).
resetReps ==
    /\ screen = "mounted"
    /\ ~isCountdownActive
    /\ ~isWorkoutComplete
    /\ ResetRepsCall
    /\ UNCHANGED <<currentSet, isSetTransition, setTimer>>

SetTransitionTimerKeepsCounts ==
    /\ setTimer
    /\ setTimer' = FALSE
    /\ currentSet' = currentSet + 1
    /\ isSetTransition' = FALSE
    /\ UNCHANGED <<screen, countdownVars, connVars, streamVars, sessionVars, serverVars,
                   screenObs, totalSets, repsPerSet, isWorkoutComplete, setData, textVars,
                   coreVars, restVars>>

\* The 3 s set transition timer fires (lines 139-145): the next set begins
\* and resetReps() is called.
SetTransitionTimer ==
    /\ setTimer
    /\ currentSet' = currentSet + 1
    /\ isSetTransition' = FALSE
    /\ ResetRepsCall /\ setTimer' = FALSE

\* The 3 s reset timer fires (lines 341-347).
ResetTimer ==
    /\ resetTimeout
    /\ resetTimeout' = FALSE
    /\ IF isResetPending
       THEN isResetPending' = FALSE /\ currentSessionId' = ClientReset
       ELSE UNCHANGED <<isResetPending, currentSessionId>>
    /\ obsAccepted' = FALSE
    /\ UNCHANGED <<screen, countdownVars, connVars, streamVars, lastFrameSeq, lastUpdate,
                   displayValidReps, displayInvalidReps, serverVars, obsAppliedSession,
                   obsAppliedSeq, obsCloses, obsCalls, obsLateClose, obsOpens, textVars, obsSockets, setVars,
                   coreVars, restVars>>

\* The filters an analysis message passes before it is applied (lines 201-208).
Passes(pending, active, last, m) ==
    /\ ~pending
    /\ ~(active # NoSession /\ m.session # NoSession /\ m.session # active)
    /\ ~(m.seq > 0 /\ m.seq <= last)

\* ---- set completion (lines 112-149)

DetectsCompletionAnyRep(v) ==
    ~(isSetTransition \/ isWorkoutComplete) /\ v > 0

DetectsCompletionInTransition(v) ==
    ~isWorkoutComplete /\ v > 0 /\ v >= repsPerSet

\* The set completion effect acts on the valid count v (lines 113-114).
DetectsCompletion(v) ==
    ~(isSetTransition \/ isWorkoutComplete) /\ v > 0 /\ v >= repsPerSet

IsLastSetNever(cur, total) == FALSE

\* Line 118.
IsLastSet(cur, total) == cur >= total

\* The set completion effect, run when validReps changed to v, with
\* invalidReps at i and the feedback text the handler left at fb.
SetCompletionEffect(v, i, fb) ==
    IF DetectsCompletion(v)
    THEN /\ setData' = Append(setData, [validReps |-> v, invalidReps |-> i])
         /\ IF IsLastSet(currentSet, totalSets)
            THEN /\ isWorkoutComplete' = TRUE
                 /\ feedback' = "Workout Complete!"
                 /\ SetStream(FALSE, isCapturing, FALSE, strays, photos)
                 /\ UNCHANGED <<isSetTransition, setTimer>>
            ELSE /\ isSetTransition' = TRUE
                 /\ setTimer' = TRUE
                 /\ feedback' = "Set Complete!"
                 /\ UNCHANGED <<isWorkoutComplete, streamVars>>
         /\ UNCHANGED <<totalSets, repsPerSet, currentSet>>
    ELSE feedback' = fb /\ UNCHANGED <<setVars, streamVars>>

\* ---- messages (lines 171-283)

OnPingSilent ==
    /\ toServer' = toServer
    /\ obsAccepted' = FALSE
    /\ UNCHANGED <<sessionVars, setVars, streamVars, textVars, obsAppliedSession,
                   obsAppliedSeq>>

\* ws.onmessage for a ping (lines 176-182); the handler's socket is OPEN.
OnPing ==
    /\ Len(toServer) < MaxOutbox
    /\ toServer' = Append(toServer, [type |-> "pong", call |-> 0])
    /\ obsAccepted' = FALSE
    /\ UNCHANGED <<sessionVars, setVars, streamVars, textVars, obsAppliedSession,
                   obsAppliedSeq>>

\* ws.onmessage for a reset_confirmation (lines 185-198).
OnResetConfirmation(m) ==
    /\ isResetPending' = FALSE
    /\ currentSessionId' = m.session
    /\ resetTimeout' = FALSE
    /\ displayValidReps' = 0
    /\ displayInvalidReps' = 0
    /\ lastFrameSeq' = m.seq
    /\ lastUpdate' = MAX_SAFE_INTEGER
    /\ obsAccepted' = FALSE
    /\ UNCHANGED <<setVars, streamVars, textVars, toServer, obsAppliedSession,
                   obsAppliedSeq>>

\* The feedback texts the server sends; "": none.
ServerTexts == {"", "Good form", "Keep chest up!"}

\* The handler shows the feedback text of an analysis message (lines 222-224).
ShowsFeedback(text, last) ==
    ~isSetTransition /\ ~isWorkoutComplete /\ text # "" /\ text # last

\* The throttle of line 241: now - lastUpdateRef.current > 33.
ThrottleOpen(age) == age > throttle

\* ws.onmessage for an analysis message (lines 201-270).
OnAnalysis(m) ==
    /\ toServer' = toServer
    /\ IF Passes(isResetPending, currentSessionId, lastFrameSeq, m)
       THEN /\ currentSessionId' = IF currentSessionId = NoSession THEN m.session
                                   ELSE currentSessionId
            /\ lastFeedback' = IF ShowsFeedback(m.text, lastFeedback) THEN m.text
                               ELSE lastFeedback
            /\ LET fb == IF ShowsFeedback(m.text, lastFeedback) THEN m.text ELSE feedback
               IN
               IF ThrottleOpen(lastUpdate)
               THEN /\ displayValidReps' = m.valid
                    /\ displayInvalidReps' = m.invalid
                    /\ lastUpdate' = 0
                    /\ IF m.valid # displayValidReps
                       THEN SetCompletionEffect(m.valid, m.invalid, fb)
                       ELSE /\ feedback' = fb
                            /\ UNCHANGED <<setVars, streamVars>>
               ELSE /\ feedback' = fb
                    /\ UNCHANGED <<displayValidReps, displayInvalidReps, lastUpdate,
                                   setVars, streamVars>>
            /\ obsAppliedSession' = m.session
            /\ obsAppliedSeq' = IF m.session = obsAppliedSession /\ obsAppliedSeq > m.seq
                                THEN obsAppliedSeq ELSE m.seq
            /\ obsAccepted' = TRUE
            /\ UNCHANGED <<isResetPending, resetTimeout, lastFrameSeq>>
       ELSE /\ obsAccepted' = FALSE
            /\ UNCHANGED <<sessionVars, setVars, streamVars, textVars, obsAppliedSession,
                           obsAppliedSeq>>

\* ws.onmessage: messages reach the handler of an OPEN socket, in any order.
onmessage ==
    /\ wsRef = "OPEN"
    /\ \E m \in toClient :
          /\ toClient' = toClient \ {m}
          /\ CASE m.type = "ping" -> OnPing
               [] m.type = "reset_confirmation" -> OnResetConfirmation(m)
               [] OTHER -> OnAnalysis(m)
    /\ UNCHANGED <<screen, countdownVars, connVars, srvSession, srvSeq,
                   srvValid, srvInvalid, srvEpoch, obsCloses,
                   obsCalls, obsLateClose, obsOpens, obsSockets, coreVars, restVars>>

\* Time passes; lastUpdateRef grows older, until past the PRD's throttle interval.
TimePasses ==
    /\ lastUpdate <= uiThrottle
    /\ lastUpdate' = lastUpdate + tickMs
    /\ obsAccepted' = FALSE
    /\ UNCHANGED <<screen, countdownVars, connVars, streamVars, isResetPending,
                   resetTimeout, currentSessionId, lastFrameSeq, displayValidReps,
                   displayInvalidReps, setVars, serverVars, obsAppliedSession,
                   obsAppliedSeq, obsCloses, obsCalls, obsLateClose, obsOpens, textVars, obsSockets, coreVars, restVars>>

\* ---- the server end (PRD.md 6.2, 6.3)

\* The server takes the next frame, analyses it, counting a rep or not, and
\* answers with the session's counts.
ServerSends(texts) ==
    /\ wsRef = "OPEN"
    /\ toServer # <<>>
    /\ Head(toServer).type = "frame"
    /\ srvSeq < MaxSeq
    /\ Cardinality(toClient) < MaxInFlight
    /\ toServer' = Tail(toServer)
    /\ srvSeq' = srvSeq + 1
    /\ \E v \in {srvValid, srvValid + 1}, i \in {srvInvalid, srvInvalid + 1} :
          /\ v + i <= MaxCount
          /\ v + i <= srvValid + srvInvalid + 1
          /\ srvValid' = v
          /\ srvInvalid' = i
    /\ \E t \in texts : toClient' = toClient \cup
          {[type |-> "analysis", session |-> srvSession, seq |-> srvSeq',
            valid |-> srvValid', invalid |-> srvInvalid', epoch |-> srvEpoch,
            text |-> t]}
    /\ obsAccepted' = FALSE
    /\ UNCHANGED <<screen, countdownVars, connVars, streamVars, sessionVars, srvSession,
                   srvEpoch, obsAppliedSession, obsAppliedSeq, obsCloses, obsCalls,
                   obsLateClose, obsOpens, textVars, obsSockets, setVars,
                   coreVars, restVars>>

\* An analysis message without feedback text.
ServerAnalyzes == ServerSends({""})

\* An analysis message with a feedback text.
ServerCoaches == ServerSends(ServerTexts \ {""})

\* The server drops the next frame as stale (the comment at lines 390-392).
ServerDrops ==
    /\ wsRef = "OPEN"
    /\ toServer # <<>>
    /\ Head(toServer).type = "frame"
    /\ toServer' = Tail(toServer)
    /\ obsAccepted' = FALSE
    /\ UNCHANGED <<screen, countdownVars, connVars, streamVars, sessionVars, srvSession,
                   srvSeq, srvValid, srvInvalid, srvEpoch, toClient, obsAppliedSession,
                   obsAppliedSeq, obsCloses, obsCalls, obsLateClose, obsOpens, textVars, obsSockets, setVars,
                   coreVars, restVars>>

\* The server takes a reset_reps: counters to 0, a new session, and a
\* reset_confirmation carrying the session and the frame_seq baseline.
ServerResets ==
    /\ wsRef = "OPEN"
    /\ toServer # <<>>
    /\ Head(toServer).type = "reset_reps"
    /\ srvSession < MaxSessions
    /\ Cardinality(toClient) < MaxInFlight
    /\ toServer' = Tail(toServer)
    /\ srvSession' = srvSession + 1
    /\ srvValid' = 0
    /\ srvInvalid' = 0
    /\ srvEpoch' = Head(toServer).call
    /\ toClient' = toClient \cup
          {[type |-> "reset_confirmation", session |-> srvSession', seq |-> srvSeq,
            valid |-> 0, invalid |-> 0, epoch |-> srvEpoch', text |-> ""]}
    /\ obsAccepted' = FALSE
    /\ UNCHANGED <<screen, countdownVars, connVars, streamVars, sessionVars, srvSeq,
                   obsAppliedSession, obsAppliedSeq, obsCloses, obsCalls,
                   obsLateClose, obsOpens, textVars, obsSockets, setVars,
                   coreVars, restVars>>

\* Keepalive (PRD.md 6.2, 6.3): the server sends a ping ...
ServerPings ==
    /\ wsRef = "OPEN"
    /\ Cardinality(toClient) < MaxInFlight
    /\ toClient' = toClient \cup
          {[type |-> "ping", session |-> NoSession, seq |-> 0, valid |-> 0, invalid |-> 0,
            epoch |-> 0, text |-> ""]}
    /\ toClient' # toClient
    /\ obsAccepted' = FALSE
    /\ UNCHANGED <<screen, countdownVars, connVars, streamVars, sessionVars, srvSession,
                   srvSeq, srvValid, srvInvalid, srvEpoch, toServer, obsAppliedSession,
                   obsAppliedSeq, obsCloses, obsCalls, obsLateClose, obsOpens, textVars, obsSockets, setVars,
                   coreVars, restVars>>

\* ... and takes the pong.
ServerTakesPong ==
    /\ wsRef = "OPEN"
    /\ toServer # <<>>
    /\ Head(toServer).type = "pong"
    /\ toServer' = Tail(toServer)
    /\ obsAccepted' = FALSE
    /\ UNCHANGED <<screen, countdownVars, connVars, streamVars, sessionVars, srvSession,
                   srvSeq, srvValid, srvInvalid, srvEpoch, toClient, obsAppliedSession,
                   obsAppliedSeq, obsCloses, obsCalls, obsLateClose, obsOpens, textVars, obsSockets, setVars,
                   coreVars, restVars>>

\* The connection, the countdown and the capture loop.
NextConn ==
    \/ Mount
    \/ onopen
    \/ onclose
    \/ ReconnectTimer
    \/ disconnectWebSocket
    \/ PressConnect
    \/ CountdownTick
    \/ CountdownDone
    \/ CaptureTimer
    \/ PhotoSettles
    \/ ServerDrops

SpecConn == Init /\ [][NextConn]_vars

\* The connection, the capture loop, resets and analysis messages.
NextClient ==
    \/ Mount
    \/ onopen
    \/ onclose
    \/ ReconnectTimer
    \/ CountdownTick
    \/ CountdownDone
    \/ CaptureTimer
    \/ PhotoSettles
    \/ resetReps
    \/ ResetTimer
    \/ onmessage
    \/ ServerAnalyzes
    \/ ServerDrops
    \/ ServerResets
    \/ SetTransitionTimer
    \/ TimePasses

SpecClient == Init /\ [][NextClient]_vars

\* One connection, from the countdown to the end of the workout.
NextSets ==
    \/ Mount
    \/ onopen
    \/ onclose
    \/ CountdownTick
    \/ CountdownDone
    \/ CaptureTimer
    \/ PhotoSettles
    \/ ResetTimer
    \/ onmessage
    \/ TimePasses
    \/ SetTransitionTimer
    \/ ServerAnalyzes
    \/ ServerResets

SpecSets == Init /\ [][NextSets]_vars

\* The same with the server's keepalive.
NextKeepalive ==
    \/ Mount
    \/ onopen
    \/ onclose
    \/ CountdownTick
    \/ CountdownDone
    \/ CaptureTimer
    \/ PhotoSettles
    \/ ResetTimer
    \/ onmessage
    \/ TimePasses
    \/ SetTransitionTimer
    \/ ServerAnalyzes
    \/ ServerResets
    \/ ServerPings
    \/ ServerTakesPong

SpecKeepalive == Init /\ [][NextKeepalive]_vars

\* The sets with the server's feedback texts.
NextText ==
    \/ Mount
    \/ onopen
    \/ onclose
    \/ CountdownTick
    \/ CountdownDone
    \/ CaptureTimer
    \/ PhotoSettles
    \/ ResetTimer
    \/ onmessage
    \/ TimePasses
    \/ SetTransitionTimer
    \/ ServerAnalyzes
    \/ ServerCoaches
    \/ ServerResets

SpecText == Init /\ [][NextText]_vars

\* ===================================================== the useTTS hook
\* hooks/useTTS.ts holds the hook twice: with expo-av (lines 1-125), where
\* the sound is loaded asynchronously, and with expo-audio (lines 127-252),
\* where the player is created and started within speak().  An utterance is
\* started when speak() passes its checks and sets isSpeakingRef; playback
\* can then still fail.  The screen passes enabled: true (form-check.tsx 93).

\* Utterances started in one run.
MaxUtterances == 3
\* Time passes in steps of speakTick ms.
speakTick == 1000
\* Sounds loading, and sounds playing unreferenced, at a time.
MaxSounds == 2

MIN_SPEAK_INTERVAL_MS(v) == IF v = "expo-av" THEN 4000 ELSE 3000

SKIP_MESSAGES(v) ==
    IF v = "expo-av" THEN {"Position yourself in frame", "Start Squatting"}
    ELSE {"Position yourself in frame", "Start Squatting", "Start Push-ups",
          "Nice, just a little more chest lift", "Let's engage that core"}

\* What the screen may ask to be spoken.
Texts == {"", "Position yourself in frame", "Start Push-ups", "Go deeper", "Keep chest up!"}

RateLimitedNever(v, age) == FALSE

\* speak: the rate limit (lines 70, 197).
RateLimited(v, age) == age < MIN_SPEAK_INTERVAL_MS(v)

RepeatsNever(text, last) == FALSE

\* speak: the same phrase back-to-back (lines 66, 193).
Repeats(text, last) == text = last

\* speak: the checks before an utterance is started (lines 60-73, 187-200).
SpeakPasses(text) ==
    /\ text # ""
    /\ text \notin SKIP_MESSAGES(player)
    /\ ~Repeats(text, lastSpokenText)
    /\ ~RateLimited(player, lastSpeakTime)
    /\ ~isSpeaking

\* The hook is mounted, in one version or the other.
useTTS ==
    /\ hook = "new"
    /\ hook' = "mounted"
    /\ player' \in {"expo-av", "expo-audio"}
    /\ UNCHANGED <<lastSpokenText, lastSpeakTime, isSpeaking, loading, refPlaying, orphans,
                   obsStarted, obsSinceStart, obsUtterances, feedbackVars, coreVars,
                   screenVars>>

\* speak(text), up to its first await (lines 58-110, 185-237).  A call that
\* returns early changes nothing.  With expo-av the previous sound is
\* unloaded and the new one loads; with expo-audio the previous player is
\* removed and the new one plays, unless creating or starting it throws.
speak ==
    /\ hook # "new"
    /\ obsUtterances < MaxUtterances
    /\ \E text \in Texts :
          /\ SpeakPasses(text)
          /\ lastSpokenText' = text
          /\ obsStarted' = text
    /\ lastSpeakTime' = 0
    /\ obsSinceStart' = 0
    /\ obsUtterances' = obsUtterances + 1
    /\ IF player = "expo-av"
       THEN /\ loading < MaxSounds
            /\ loading' = loading + 1
            /\ isSpeaking' = TRUE
            /\ refPlaying' = FALSE
       ELSE /\ loading' = loading
            /\ \E ok \in BOOLEAN :
                  /\ isSpeaking' = ok
                  /\ refPlaying' = ok
    /\ UNCHANGED <<hook, player, orphans, feedbackVars, coreVars, screenVars>>

\* expo-av: Audio.Sound.createAsync settles (lines 88-107).  The sound plays
\* and soundRef takes it, or the load failed.
Loaded ==
    /\ loading > 0
    /\ loading' = loading - 1
    /\ \E ok \in BOOLEAN :
          IF ok
          THEN /\ orphans + (IF refPlaying THEN 1 ELSE 0) <= MaxSounds
               /\ orphans' = orphans + (IF refPlaying THEN 1 ELSE 0)
               /\ refPlaying' = TRUE
               /\ isSpeaking' = isSpeaking
          ELSE /\ isSpeaking' = FALSE
               /\ UNCHANGED <<orphans, refPlaying>>
    /\ UNCHANGED <<hook, player, lastSpokenText, lastSpeakTime, obsStarted, obsSinceStart,
                   obsUtterances, feedbackVars, coreVars, screenVars>>

\* A sound plays to its end (lines 94-103, 219-228): the one the ref holds,
\* or an unreferenced one.  The listener does nothing after the unmount.
Finishes ==
    /\ \/ /\ refPlaying
          /\ refPlaying' = FALSE
          /\ orphans' = orphans
       \/ /\ orphans > 0
          /\ orphans' = orphans - 1
          /\ refPlaying' = refPlaying
    /\ isSpeaking' = IF hook = "mounted" THEN FALSE ELSE isSpeaking
    /\ UNCHANGED <<hook, player, lastSpokenText, lastSpeakTime, loading, obsStarted,
                   obsSinceStart, obsUtterances, feedbackVars, coreVars, screenVars>>

\* The sound the ref holds stops with an error after it was started (the
\* stream breaks off, the URI cannot be fetched): its status updates never
\* carry didJustFinish, and the listener (lines 94-103, 219-228) acts on
\* nothing else.
PlaybackFails ==
    /\ refPlaying
    /\ refPlaying' = FALSE
    /\ UNCHANGED <<hook, player, lastSpokenText, lastSpeakTime, isSpeaking, loading, orphans,
                   obsStarted, obsSinceStart, obsUtterances, feedbackVars, coreVars,
                   screenVars>>

\* stop() (lines 113-122, 240-249).
stop ==
    /\ hook # "new"
    /\ isSpeaking \/ refPlaying
    /\ isSpeaking' = FALSE
    /\ refPlaying' = FALSE
    /\ UNCHANGED <<hook, player, lastSpokenText, lastSpeakTime, loading, orphans,
                   obsStarted, obsSinceStart, obsUtterances, feedbackVars, coreVars,
                   screenVars>>

\* The cleanup of the mount effect (lines 40-47, 167-174).
Unmount ==
    /\ hook = "mounted"
    /\ hook' = "unmounted"
    /\ refPlaying' = FALSE
    /\ UNCHANGED <<player, lastSpokenText, lastSpeakTime, isSpeaking, loading, orphans,
                   obsStarted, obsSinceStart, obsUtterances, feedbackVars, coreVars,
                   screenVars>>

\* Time passes, until past the longer rate limit.
SpeakTimePasses ==
    /\ hook # "new"
    /\ obsSinceStart < MIN_SPEAK_INTERVAL_MS("expo-av")
    /\ lastSpeakTime' = IF lastSpeakTime = MAX_SAFE_INTEGER THEN lastSpeakTime
                        ELSE lastSpeakTime + speakTick
    /\ obsSinceStart' = obsSinceStart + speakTick
    /\ UNCHANGED <<hook, player, lastSpokenText, isSpeaking, loading, refPlaying, orphans,
                   obsStarted, obsUtterances, feedbackVars, coreVars, screenVars>>

NextTTS ==
    \/ useTTS
    \/ speak
    \/ Loaded
    \/ Finishes
    \/ PlaybackFails
    \/ stop
    \/ Unmount
    \/ SpeakTimePasses

SpecTTS == Init /\ [][NextTTS]_vars

\* The same where the audio library makes progress: a load settles, and a
\* sound that keeps playing comes to its end.
SpecTTSFair == SpecTTS /\ WF_vars(Loaded) /\ WF_vars(Finishes)

\* ----------------------------------------------------------------- claims

UpToUp == <<"UP", "UP", "DESCENDING", "DESCENDING", "BOTTOM", "BOTTOM", "ASCENDING", "UP">>

Counted == validReps' + invalidReps' > validReps + invalidReps

\* C1: starting in UP, the angles 170, 140, 90, 90, 90, 120, 160 take the phase
\* through UP, DESCENDING, BOTTOM, ASCENDING, UP in that order (the first 90 is
\* still DESCENDING: minBottomFrames = 2), and onCycleComplete is called once.
C1_MonotonicCycle ==
    (mode = "done" /\ kind = "cycle" /\ trace[1] = "UP")
        => (trace = UpToUp /\ calls = 1)

C1_Witness ==
    mode = "done" /\ kind = "cycle" /\ trace[1] = "UP" /\ calls = 1 /\ stage = "UP"

\* C2: a step changes validReps or invalidReps only as the completion
\* ASCENDING -> UP, which adds exactly 1 to the counter of its verdict and
\* leaves the other, or as reset(), which sets both to 0; so an aborted
\* descent and the safety escape change neither.
C2_CounterSteps ==
    [][(validReps' # validReps \/ invalidReps' # invalidReps) =>
        \/ /\ stage = "ASCENDING" /\ stage' = "UP" /\ completed'
           /\ \/ verdict' = "VALID" /\ validReps' = validReps + 1
                                   /\ invalidReps' = invalidReps
              \/ verdict' = "INVALID" /\ invalidReps' = invalidReps + 1
                                     /\ validReps' = validReps
        \/ obsOp' = "reset" /\ validReps' = 0 /\ invalidReps' = 0]_vars

C2_Witness ==
    completed /\ verdict = "INVALID" /\ validReps = 1 /\ invalidReps = 1

\* C3: onCycleComplete returns VALID exactly when depth was achieved in the
\* cycle and no frame of the cycle raised a form-issue flag.
C3_VerdictRule ==
    completed => (verdict = "VALID" <=> (obsDepth /\ ~obsFlag))

C3_Witness ==
    completed /\ verdict = "INVALID" /\ obsDepth /\ obsFlag

\* C4: BOTTOM is entered, and a rep is counted, only in a cycle that had a
\* frame below bottomThreshold; the angles 170, 140, 170 fed in UP end in UP
\* without passing BOTTOM and with both counters as they were.
C4_HysteresisRejectsNoise ==
    [][/\ stage' = "BOTTOM" => obsBelow'
       /\ (obsOp' \in {"frame", "lowconf"} /\ Counted) => obsBelow'
       /\ (mode' = "done" /\ kind' = "dip" /\ trace'[1] = "UP") =>
             /\ trace' = <<"UP", "UP", "DESCENDING", "UP">>
             /\ base' = <<validReps', invalidReps'>>
             /\ calls' = 0]_vars

C4_Witness ==
    mode = "done" /\ kind = "dip" /\ trace = <<"UP", "UP", "DESCENDING", "UP">>

\* C5: DESCENDING -> BOTTOM happens only on a frame that is at least the
\* minBottomFrames-th of a run of frames below bottomThreshold, and the frames
\* counted in DESCENDING never exceed the current run: a frame at or above
\* bottomThreshold clears the count.
C5_SustainedBottom ==
    [][/\ (stage = "DESCENDING" /\ stage' = "BOTTOM") => obsRun' >= minBottomFrames
       /\ stage' = "DESCENDING" => bottomFrames' <= obsRun']_vars

C5_Witness ==
    stage = "BOTTOM" /\ obsOp = "frame" /\ obsRun = minBottomFrames /\ ~obsDepth

C7_OneDirection ==
    [][stage' # stage =>
          \/ stage' = "UP"
          \/ <<stage, stage'>> \in {<<"UP", "DESCENDING">>, <<"DESCENDING", "BOTTOM">>,
                                    <<"BOTTOM", "ASCENDING">>}]_vars

C7_Witness ==
    stage = "ASCENDING" /\ obsOp = "frame" /\ angle < bottomThreshold

\* C8: a cycle that completes less than minRepInterval after the last counted
\* rep of the session changes neither counter.
C8_RepGating ==
    [][(completed' /\ obsElapsed' < minRepInterval) =>
          (validReps' = validReps /\ invalidReps' = invalidReps)]_vars

C8_Witness ==
    completed /\ obsElapsed < minRepInterval /\ obsGated /\ validReps + invalidReps = 1

\* C9: a completion that is not counted still leaves the phase UP with no
\* record in flight, the record of the next cycle starts empty, and the
\* verdict of the cycle after an uncounted one is decided by its own frames.
C9_GatedCycleStartsFresh ==
    [][/\ (completed' /\ ~Counted) => (stage' = "UP" /\ rec' = NoRec)
       /\ (stage = "UP" /\ stage' # "UP") =>
             /\ rec'.live /\ ~rec'.lowConf /\ ~rec'.reachedTargetDepth
             /\ (rec'.formIssues # {}) = obsFlag'
       /\ (obsGated /\ completed') =>
             (verdict' = "VALID" <=> (obsDepth' /\ ~obsFlag'))]_vars

C9_Witness ==
    obsGated /\ stage = "BOTTOM" /\ rec.live /\ ~rec.lowConf
        /\ rec.reachedTargetDepth /\ rec.formIssues = {}

\* C10: reset() called in any phase, followed by one full valid cycle, leaves
\* validReps = 1 and invalidReps = 0.
C10_ResetThenValidCycle ==
    (mode = "done" /\ kind = "valid" /\ obsReset # "NONE")
        => (validReps = 1 /\ invalidReps = 0)

C10_Witness ==
    mode = "done" /\ kind = "valid" /\ obsReset = "BOTTOM" /\ validReps = 1
        /\ invalidReps = 0 /\ completed /\ verdict = "VALID"

\* C11: reset() leaves both counters 0, the phase UP, no record in flight and
\* the stabilizer's last message cleared, and a second reset() right after it
\* changes nothing of the analyzer.
C11_ResetIdempotent ==
    [][obsOp' = "reset" =>
          /\ validReps' = 0 /\ invalidReps' = 0 /\ stage' = "UP"
          /\ rec' = NoRec /\ lastMessage' = ""
          /\ obsOp = "reset" => analyzerVars' = analyzerVars]_vars

C11_Witness ==
    obsResets = 2 /\ obsReset = "UP" /\ validReps = 0 /\ invalidReps = 0
        /\ stage = "UP" /\ lastMessage = ""

\* C12: the non-confident frame that completes the sustained-loss period in a
\* non-UP phase takes the phase to UP, drops the record in flight, calls no
\* onCycleComplete and changes neither counter.
C12_SafetyEscape ==
    [][(stage # "UP" /\ obsOp' = "lowconf" /\ obsLowRun' >= sustainedLossFrames) =>
          /\ stage' = "UP" /\ rec' = NoRec /\ ~completed'
          /\ validReps' = validReps /\ invalidReps' = invalidReps]_vars

C12_Witness ==
    obsOp = "lowconf" /\ obsLowRun >= sustainedLossFrames /\ stage = "UP"
        /\ obsLow /\ obsBelow /\ lastMessage = "Position yourself in frame"

\* A step that called select.
SelectCalled == fbNow' # fbNow
CandidateSet(cands) == {cands[i] : i \in DOMAIN cands}

C22_MinimumDwell ==
    [][(SelectCalled /\ fbOut.text # "" /\ fbOut'.text # fbOut.text) =>
          \/ obsFbElapsed' >= minDwell
          \/ /\ Priority(CodeOf(fbOut'.text)) = 1
             /\ Priority(CodeOf(fbOut'.text)) < Priority(CodeOf(fbOut.text))]_vars

\* A different candidate was ranked first before the dwell time had passed,
\* and the displayed message was held.
C22_Witness ==
    /\ fbOut.text # ""
    /\ Text(fbBest) # fbOut.text
    /\ obsFbElapsed < minDwell
    /\ ~fbChanged
    /\ fbNow > 0

\* C23: changed is true exactly when the returned text differs from the one
\* returned before, and FeedbackState is written exactly in that case.
C23_ChangedFlag ==
    [][SelectCalled =>
          /\ fbChanged' = (fbOut'.text # fbOut.text)
          /\ fbChanged' = (fbState' # fbState)]_vars

\* The same text on consecutive frames: not changed.
C23_Witness ==
    /\ ~fbChanged
    /\ Text(fbBest) = fbOut.text
    /\ fbState.lastChangedAt < fbNow
    /\ fbState.lastMessage = fbOut.text

\* What a step of the screen did, read off the state it changed.
Handled == toClient \ toClient'
HandlesMessage == wsRef = "OPEN" /\ wsRef' = "OPEN" /\ Handled # {}
SendsFrame ==
    /\ Len(toServer') > Len(toServer)
    /\ toServer'[Len(toServer')].type = "frame"
UnintentionalClose == wsRef # "null" /\ wsRef' = "null" /\ ~intentionalDisconnect'
Backoff(n) ==
    CASE n = 1 -> 1000
      [] n = 2 -> 2000
      [] n = 3 -> 4000
      [] n = 4 -> 8000
      [] OTHER -> 10000

\* C13: after resetReps(), an analysis message the server produced before it
\* handled that reset never changes the displayed validReps or invalidReps.
\* (The message's epoch is the last resetReps() call the server had handled
\* when it produced the message.)
C13_StaleNeverShown ==
    [][\A m \in Handled :
          (HandlesMessage /\ m.type = "analysis" /\ m.epoch < obsCalls) =>
              /\ displayValidReps' = displayValidReps
              /\ displayInvalidReps' = displayInvalidReps]_vars

\* C14: an analysis message whose frame_seq is not greater than the frame_seq
\* of a message of its session that was applied before is discarded and
\* changes nothing on the screen.
C14_IncreasingFrameSeq ==
    [][\A m \in Handled :
          (/\ HandlesMessage
           /\ m.type = "analysis"
           /\ m.session = obsAppliedSession
           /\ m.seq <= obsAppliedSeq) =>
              /\ ~obsAccepted'
              /\ sessionVars' = sessionVars]_vars

\* C15: the n-th unintentional close in a row with no open in between
\* schedules the reconnect after 1 s, 2 s, 4 s, 8 s and from the fifth on
\* after 10 s, never more; the first close after an open uses 1 s again.
C15_ReconnectBackoff ==
    [][UnintentionalClose =>
          /\ reconnectTimeout' = Backoff(obsCloses')
          /\ reconnectTimeout' <= 10000
          /\ (wsRef = "OPEN" => reconnectTimeout' = 1000)]_vars

\* The reconnect after the sixth (or a later) failure in a row waits 10 s.
C15_Witness ==
    /\ obsCloses = MaxCloses
    /\ reconnectTimeout = 10000
    /\ wsRef = "null"
    /\ srvSession > 0

\* C16: once disconnectWebSocket() has run, no reconnect timer is pending, none
\* is scheduled and no socket is created, whatever fires afterwards.
C16_NoReconnectAfterExit ==
    [][screen' = "exited" =>
          /\ reconnectTimeout' = NoTimer
          /\ wsRef' = "null"]_vars

\* The close event of the socket that disconnectWebSocket() closed has fired,
\* after reconnect attempts had been made before the screen was left.
C16_Witness ==
    /\ screen = "exited"
    /\ obsLateClose
    /\ ~closePending
    /\ reconnectDelay > initialDelay
    /\ reconnectTimeout = NoTimer

\* C17: no frame message is sent while the countdown is active, and the
\* capture loop is started only once the countdown has reached 0.
C17_NoFramesDuringCountdown ==
    [][/\ SendsFrame => (~isCountdownActive /\ countdown = 0)
       /\ isStreaming' => (~isCountdownActive' /\ countdown' = 0)
       /\ isCountdownActive' => (photos' = 0 /\ ~frameInterval' /\ strays' = 0)]_vars

\* The socket is connected while the countdown still runs; nothing is sent.
C17_Witness ==
    /\ isCountdownActive
    /\ countdown > 0
    /\ wsRef = "OPEN"
    /\ isConnected
    /\ ~isStreaming
    /\ toServer = <<>>

\* C18 as stated: a non-confident frame never changes the phase.
C18_NoTransitionOnLowConfidence ==
    [][obsOp' = "lowconf" => stage' = stage]_vars

\* C18 (amended): a non-confident frame holds the smoothed angle and changes
\* the phase in one case only, the safety escape to UP at the end of the
\* sustained-loss period; the held angle causes no transition.
C18_OnlyEscapeOnLowConfidence ==
    [][obsOp' = "lowconf" =>
          /\ angle' = angle
          /\ bottomFrames' <= bottomFrames
          /\ \/ stage' = stage
             \/ stage' = "UP" /\ obsLowRun' >= sustainedLossFrames]_vars

C18_Witness ==
    obsOp = "lowconf" /\ stage = "DESCENDING" /\ bottomFrames = 1
        /\ angle < bottomThreshold /\ obsRun = minBottomFrames

\* C19: a cycle that had a non-confident frame changes neither counter when
\* it completes.
C19_ConfidenceGate ==
    [][(completed' /\ obsLow') =>
          (validReps' = validReps /\ invalidReps' = invalidReps)]_vars

C19_Witness ==
    completed /\ obsLow /\ obsElapsed >= minRepInterval /\ verdict = "VALID"
        /\ validReps = 0 /\ invalidReps = 0

\* C20: the record's depth is latched: true from the BOTTOM frame that reports
\* depth for as long as the record lives, whatever later frames report, false
\* in the record a new rep begins with; a cycle that had depth and no flag
\* completes VALID.
C20_DepthLatched ==
    [][/\ (rec.live /\ rec.reachedTargetDepth /\ rec'.live) => rec'.reachedTargetDepth
       /\ rec'.live => (rec'.reachedTargetDepth = obsDepth')
       /\ (stage = "UP" /\ stage' # "UP") => ~rec'.reachedTargetDepth
       /\ (completed' /\ rec.reachedTargetDepth /\ ~obsFlag') => verdict' = "VALID"]_vars

C20_Witness ==
    stage = "ASCENDING" /\ obsOp = "frame" /\ rec.reachedTargetDepth /\ obsDepth

\* ---- set tracking

\* What a step did to the sets.
ReachesRepsPerSet ==
    screen = "mounted" /\ displayValidReps < repsPerSet /\ displayValidReps' >= repsPerSet
TransitionEnds == setTimer /\ ~setTimer'
SendsOne(type) ==
    /\ Len(toServer') = Len(toServer) + 1
    /\ SubSeq(toServer', 1, Len(toServer)) = toServer
    /\ toServer'[Len(toServer')].type = type

\* C24: each time the displayed valid count reaches reps-per-set in a set
\* that is not the last, the completion of that set is recorded (once: the
\* records are then as many as the set's number) and a 3 s transition is
\* under way; at its end currentSet goes up by exactly 1, and it changes at
\* no other step.
C24_SetCompletesOnce ==
    [][/\ (ReachesRepsPerSet /\ currentSet < totalSets) =>
             /\ isSetTransition' /\ setTimer'
             /\ Len(setData') = currentSet
             /\ currentSet' = currentSet
       /\ (setData' # setData /\ currentSet < totalSets) =>
             ReachesRepsPerSet /\ Len(setData') = Len(setData) + 1
       /\ TransitionEnds => currentSet' = currentSet + 1 /\ ~isSetTransition'
       /\ currentSet' # currentSet => TransitionEnds]_vars

\* The second set has begun after a first set of two reps.
C24_Witness ==
    currentSet = 2 /\ Len(setData) = 1 /\ repsPerSet = 2 /\ ~isSetTransition /\ ~setTimer

\* C25 as stated: every set transition sets the displayed valid and invalid
\* counts to 0 and sends exactly one reset_reps message.
C25_TransitionResetsBothSides ==
    [][TransitionEnds =>
          /\ displayValidReps' = 0 /\ displayInvalidReps' = 0
          /\ SendsOne("reset_reps")]_vars

\* C25 as the code has it: every set transition sets the displayed valid and
\* invalid counts to 0; it sends exactly one reset_reps message if the socket
\* is OPEN when the transition ends, and none otherwise.
C25_TransitionResetsWhenOpen ==
    [][TransitionEnds =>
          /\ displayValidReps' = 0 /\ displayInvalidReps' = 0
          /\ IF wsRef = "OPEN" THEN SendsOne("reset_reps") ELSE toServer' = toServer]_vars

\* The second set has begun and its reset_reps is on the way to the server.
C25_Witness ==
    /\ currentSet = 2 /\ ~isSetTransition
    /\ toServer # <<>> /\ toServer[Len(toServer)].type = "reset_reps"
    /\ displayValidReps = 0 /\ displayInvalidReps = 0

\* C26: the workout becomes complete exactly at the steps where the displayed
\* valid count reaches reps-per-set while currentSet = totalSets; once it is
\* complete it stays complete, currentSet does not change and no set
\* transition starts.
C26_WorkoutCompletes ==
    [][/\ (~isWorkoutComplete /\ isWorkoutComplete') =
             (ReachesRepsPerSet /\ currentSet = totalSets /\ ~isWorkoutComplete)
       /\ isWorkoutComplete =>
             /\ isWorkoutComplete'
             /\ currentSet' = currentSet
             /\ ~isSetTransition' /\ ~setTimer']_vars

\* A workout of two sets is complete.
C26_Witness ==
    isWorkoutComplete /\ totalSets = 2 /\ currentSet = 2 /\ Len(setData) = 2

\* ---- the throttle

\* C27: the analysis state updates (counts, angles) are applied at most once
\* per 66 ms: a message whose update is applied comes at least 66 ms after
\* the last applied update (or after a reset, or first).  Landmarks go with
\* every accepted message: obsAccepted.
C27_ThrottledAt66 ==
    [][(obsAccepted' /\ lastUpdate # 0 /\ lastUpdate' = 0) => lastUpdate >= uiThrottle]_vars

\* ---- keepalive

HandlesPing ==
    wsRef = "OPEN" /\ wsRef' = "OPEN" /\ \E m \in Handled : m.type = "ping"

StartsUtterance == obsUtterances' = obsUtterances + 1

\* C28: an utterance is started at least 3 s after the utterance started
\* before it: a speak() less than 3 s after that one starts none.
C28_SpeakInterval ==
    [][StartsUtterance => obsSinceStart >= 3000]_vars

\* A second utterance has started, with expo-audio, and 3 s was enough.
C28_Witness ==
    player = "expo-audio" /\ obsUtterances = 2 /\ obsSinceStart = 0 /\ refPlaying

\* C29: the text of an utterance that is started differs from the text of
\* the utterance started before it and is not in the skip list.
C29_NoRepeatNoSkipped ==
    [][StartsUtterance =>
          /\ obsStarted' # obsStarted
          /\ obsStarted' \notin SKIP_MESSAGES(player)]_vars

\* Three utterances have started, the third with the text of the first.
C29_Witness ==
    obsUtterances = 3 /\ obsStarted = "Go deeper" /\ lastSpokenText = "Go deeper"

\* ---- one socket

\* C31: at most one socket the screen created is CONNECTING or OPEN, and it
\* is the one wsRef holds.
C31_OneSocket ==
    /\ obsSockets <= 1
    /\ (obsSockets = 1) = (wsRef \in {"CONNECTING", "OPEN"})

\* A socket is connecting after a failed attempt, created by a press on the
\* status item while the reconnect timer is still pending.
C31_Witness ==
    /\ wsRef = "CONNECTING"
    /\ reconnectTimeout # NoTimer
    /\ obsCloses > 0
    /\ obsSockets = 1

\* An analysis message the server produced after it had handled every
\* resetReps() call made so far (or on a connection opened after the last
\* call), with nothing of a reset still on its way to the client, and newer
\* than every message of its session applied before.
CurrentAnalysis(m) ==
    /\ m.type = "analysis"
    /\ m.seq > 0
    /\ m.epoch = obsCalls
    /\ \A c \in toClient : c.type # "reset_confirmation"
    /\ (m.session = obsAppliedSession => m.seq > obsAppliedSeq)

\* C32: after resetReps(), once the client no longer waits for the
\* confirmation (it arrived, the 3 s timeout ran, or the socket was not open
\* at the call), the analysis messages the server goes on sending with
\* increasing frame_seq are applied again.
C32_AppliesAgainAfterReset ==
    [][\A m \in Handled :
          (/\ HandlesMessage
           /\ obsCalls > 0
           /\ ~isResetPending
           /\ CurrentAnalysis(m)) => obsAccepted']_vars

\* C33: after a reconnect, the analysis messages of the new connection are
\* applied; no frame-sequence baseline of the previous connection or of an
\* earlier reset drops them.
C33_AppliesAfterReconnect ==
    [][\A m \in Handled :
          (/\ HandlesMessage
           /\ obsOpens >= 2
           /\ ~isResetPending
           /\ CurrentAnalysis(m)) => obsAccepted']_vars

\* The capture loops alive: each one either awaits its takePictureAsync or
\* has its next iteration on a timer.
CaptureLoops == photos + strays + (IF frameInterval THEN 1 ELSE 0)

\* C34: while streaming at most one capture loop runs, and at most one
\* takePictureAsync call is in flight at any time.
C34_OneCaptureLoop ==
    /\ isStreaming => CaptureLoops <= 1
    /\ photos <= 1

\* C35: once the workout is marked complete no frame message is sent any
\* more, neither by a capture in flight at completion nor after a reconnect.
C35_NoFrameAfterComplete ==
    [][isWorkoutComplete => ~SendsFrame]_vars

\* The sounds playing: the one the ref holds and the unreferenced ones.
Playing == (IF refPlaying THEN 1 ELSE 0) + orphans

\* C36: at most one utterance is playing at any time, also when stop() was
\* called while an utterance was loading or playing.
C36_OneUtterancePlaying == Playing <= 1

\* The sets completed so far: those before the current one, and the current
\* one once the transition out of it has begun or the workout is complete.
CompletedSets ==
    IF isSetTransition \/ isWorkoutComplete THEN currentSet ELSE currentSet - 1

\* C37: 1 <= currentSet <= totalSets always; the recorded set data holds at
\* most totalSets entries, exactly one per completed set, each with
\* validReps >= repsPerSet.
C37_SetBounds ==
    /\ 1 <= currentSet /\ currentSet <= totalSets
    /\ Len(setData) <= totalSets
    /\ Len(setData) = CompletedSets
    /\ \A k \in 1..Len(setData) : setData[k].validReps >= repsPerSet

\* A workout of two sets is complete, with a record for each set.
C37_Witness ==
    /\ isWorkoutComplete /\ totalSets = 2 /\ currentSet = 2 /\ Len(setData) = 2
    /\ setData[1].validReps >= repsPerSet /\ setData[2].validReps >= repsPerSet

\* C38: outside a set transition and before the workout is complete, once an
\* analysis message with a non-empty feedback text has been applied the
\* display shows that text, also when a local message ('Next set - get
\* ready!', 'Go!') was the last to write the display.
C38_ShowsServerFeedback ==
    [][\A m \in Handled :
          (/\ HandlesMessage
           /\ m.type = "analysis"
           /\ obsAccepted'
           /\ m.text # ""
           /\ ~isSetTransition /\ ~isWorkoutComplete
           /\ ~isSetTransition' /\ ~isWorkoutComplete') => feedback' = m.text]_vars

\* C39: whenever the hook has started an utterance, its speaking flag
\* eventually returns to false, so that a later speak() is not skipped for
\* overlap for ever.
C39_SpeakingEnds == isSpeaking ~> ~isSpeaking

\* The same for as long as the hook is mounted.
C39_SpeakingEndsWhileMounted ==
    (isSpeaking /\ hook = "mounted") ~> (~isSpeaking \/ hook # "mounted")

====
